---- MODULE Spec2Model ----
(***************************************************************************)
(* git2jss sync.py: the reconciliation and upload engine.                  *)
(*                                                                         *)
(* One run of main(): the category fetch, the get phase of every selected  *)
(* JamfObject (asyncio.gather over get()), the put phase (asyncio.gather   *)
(* over put()), and the exit status.  Tasks are coroutines on one event    *)
(* loop: an action is the code a task runs between two suspension points.  *)
(***************************************************************************)
EXTENDS Integers, Sequences, FiniteSets, TLC

(***************************************************************************)
(* Bounds and program constants                                            *)
(***************************************************************************)
\* asyncio.BoundedSemaphore(ARGS.limit): the number of permits in the model.
Limit == 1

\* RE_TRIES global (default of --retries).
RE_TRIES == 3

\* Local folders found by find_subdirs, one set per kind.
ExtAttrFolders == {"foo"}
ScriptFolders == {"bar"}
Folders == ExtAttrFolders \cup ScriptFolders

\* HTTP statuses the server answers with.
Statuses == {200, 201, 404}

\* The categories the server holds.
ServerCategories == {"Software", "Security"}

(***************************************************************************)
(* Metadata documents (xml.etree Elements), by the children the code reads *)
(***************************************************************************)
\* A child element that is not in the tree.
Absent == "<absent>"

\* name, category, data: the text of <name>, <category> and of the element
\* at data_xpath ("" is an element without text); id, filename, encoded:
\* whether <id>, <filename>, <script_contents_encoded> are in the tree.
MkDoc(n, c, d, i, f, e) ==
    [name |-> n, category |-> c, data |-> d, id |-> i, filename |-> f, encoded |-> e]

GoodDoc == MkDoc("Local Name", "Software", "stale", TRUE, TRUE, TRUE)
NoNameDoc == MkDoc(Absent, "Obsolete", "stale", FALSE, FALSE, FALSE)
BlankNameDoc == MkDoc("", "Software", "stale", FALSE, FALSE, FALSE)
NoDataDoc == MkDoc("Local Name", Absent, Absent, TRUE, FALSE, FALSE)
LocalDocs == {GoodDoc, NoNameDoc, BlankNameDoc, NoDataDoc}

\* The metadata file of a folder: missing, unparsable, or a document.
NoFile == [exists |-> FALSE, wellFormed |-> FALSE, doc |-> GoodDoc]
MalformedFile == [exists |-> TRUE, wellFormed |-> FALSE, doc |-> GoodDoc]
XmlFiles ==
    {NoFile, MalformedFile}
        \cup {[exists |-> TRUE, wellFormed |-> TRUE, doc |-> d] : d \in LocalDocs}
Unread == [exists |-> FALSE, wellFormed |-> TRUE, doc |-> GoodDoc]

\* The document the server returns for GET .../name/<nm> with status 200.
RemoteDoc(nm) == MkDoc(nm, "Retired", "server copy", TRUE, TRUE, TRUE)

\* templates/<filename>.xml: missing, or a document with or without a name.
BlankTemplate == MkDoc("", "None", "", FALSE, FALSE, FALSE)
NamedTemplate == MkDoc("Template", Absent, "", FALSE, FALSE, FALSE)
TemplateMissing == [exists |-> FALSE, wellFormed |-> FALSE, doc |-> BlankTemplate]
TemplateFiles ==
    {TemplateMissing}
        \cup {[exists |-> TRUE, wellFormed |-> TRUE, doc |-> d] :
                d \in {BlankTemplate, NamedTemplate}}

\* The text of the first supported-extension file of a folder, or NoData
\* when the glob finds none.
NoData == "<no file>"
DataFiles == {NoData, "#!/bin/sh"}
UnreadData == "<unread>"

\* What git diff reports as changed: nothing, one folder, or a name that is
\* no folder any more. Several folders at once are run under --update_all.
ChangedSets == {{}, {"gone"}} \cup {{f} : f \in Folders}

Kinds == {"ExtensionAttribute", "Script"}
Kind(i) == IF i \in ExtAttrFolders THEN "ExtensionAttribute" ELSE "Script"
resource(k) == IF k = "ExtensionAttribute" THEN "computerextensionattributes" ELSE "scripts"

\* JamfObject.new_url; URLs are the path segments after JPS_URL.
new_url(i) == <<"JSSResource", resource(Kind(i)), "id", "0">>

\* JamfObject.resource_url(): <<>> is None (name not defined).
resource_url(i, nm) ==
    IF nm = "" THEN <<>> ELSE <<"JSSResource", resource(Kind(i)), "name", nm>>

VARIABLES
    CHANGED,        \* CHANGED_EXT_ATTRS and CHANGED_SCRIPTS together
    update_all,     \* ARGS.update_all
    all_items,      \* main: the selected instances
    mainPc,         \* where main() is
    exitStatus,     \* the process exit status, -1 while running
    permits,        \* semaphore._value
    CATEGORIES,     \* the CATEGORIES global
    catFetches,     \* number of category GETs issued
    xmlFile,        \* the metadata file each get() found
    dataFile,       \* the content file each get_data() found
    template,       \* the template file of each kind, once read
    name,           \* JamfObject.name ("" is None)
    xml,            \* JamfObject.xml (<<>> is None, <<d>> a tree)
    data,           \* JamfObject.data ("" is None)
    getPc,          \* where each get() task is
    getRet,         \* what get() returned: "xml" or "None"
    getReqs,        \* number of get-phase GETs issued per instance
    exc,            \* the exception a task of the instance raised ("" for none)
    putPc,          \* where each put() task is
    attempt,        \* put(): the loop variable
    put_response,   \* put(): put_response (0 is None)
    put_success,    \* main: the entry of put_success ("none" until returned)
    tries,          \* number of put_resource calls per instance
    trips,          \* outcome of each finished put_resource call
    lookups,        \* number of existence GETs that returned
    writes,         \* number of PUT/POST requests issued
    req,            \* the requests of the put_resource call under way
    norm,           \* a tree under repeated cleanup_xml (SpecNorm only)
    secondGet       \* the instance as a second get() call found it (SpecGet only)

vars ==
    <<CHANGED, update_all, all_items, mainPc, exitStatus, permits, CATEGORIES,
      catFetches, xmlFile, dataFile, template, name, xml, data, getPc, getRet,
      getReqs, exc, putPc, attempt, put_response, put_success, tries, trips, lookups,
      writes, req, norm, secondGet>>

cfgVars == <<CHANGED, update_all, norm, secondGet>>
mainVars == <<all_items, mainPc, exitStatus>>
catVars == <<CATEGORIES, catFetches>>
fsVars == <<xmlFile, dataFile, template>>
objVars == <<name, xml, data>>
getVars == <<getPc, getRet, getReqs>>
excVars == <<exc>>
putVars == <<putPc, attempt, put_response, put_success, tries, trips, lookups, writes, req>>

NoReq == [lookup |-> 0, method |-> "", url |-> <<>>, body |-> <<>>]

\* What a request raises instead of returning: async_timeout's
\* asyncio.TimeoutError, or aiohttp's ClientError for a failed connection.
NetworkErrors == {"TimeoutError", "ClientError"}

\* Outcomes of a round-trip, as logged in trips.
TimedOut == [kind |-> "timeout", status |-> 0]
Failed == [kind |-> "error", status |-> 0]
Returned(s) == [kind |-> "status", status |-> s]

\* No second get() call yet; once called: what the first call returned and
\* the instance's name, tree, content and GET count when the second began.
NoSecondGet ==
    [called |-> FALSE, ret |-> "none", name |-> "", xml |-> <<>>, data |-> "", reqs |-> 0]

(***************************************************************************)
(* Inputs of the normalization on its own (SpecNorm)                       *)
(***************************************************************************)
NormNames == {Absent, "", "Local Name"}
NormCategories == {Absent, "", "None", "Software", "Obsolete"}
NormData == {Absent, "", "stale"}
NormDocs ==
    {MkDoc(n, c, d, i, f, e) :
        n \in NormNames, c \in NormCategories, d \in NormData,
        i \in BOOLEAN, f \in BOOLEAN, e \in BOOLEAN}
NormCategorySets == {{}, ServerCategories}

\* folder, cats: the instance and CATEGORIES; input: the tree as loaded;
\* tree: self.xml now; once: self.xml after the first cleanup_xml; raised:
\* the last cleanup_xml raised; applied: the cleanup_xml calls so far.
NormState(f, cats, d) ==
    [folder |-> f, cats |-> cats, input |-> d, tree |-> d, once |-> d,
     raised |-> FALSE, applied |-> 0]
NormIdle == NormState("", {}, GoodDoc)

(***************************************************************************)
(* Normalization and content discovery (pure)                              *)
(***************************************************************************)
\* Mutant: a category the server does not hold is kept.
_cleanup_xml_KeepCategory(doc, folder, cats) ==
    IF doc.name # Absent /\ doc.name = ""
    THEN [raised |-> TRUE, doc |-> doc]
    ELSE LET d1 == IF doc.name = Absent THEN [doc EXCEPT !.name = folder] ELSE doc
             d2 == IF d1.category = Absent THEN [d1 EXCEPT !.category = "None"] ELSE d1
             d3 == IF d2.data # Absent THEN [d2 EXCEPT !.data = ""] ELSE d2
             d4 == [d3 EXCEPT !.id = FALSE, !.filename = FALSE]
         IN [raised |-> FALSE, doc |-> d4]

\* Mutant: `elif` for the second `if`: <filename> goes only when there was
\* no <id> to remove.
_cleanup_xml_Elif(doc, folder, cats) ==
    IF doc.name # Absent /\ doc.name = ""
    THEN [raised |-> TRUE, doc |-> doc]
    ELSE LET d1 == IF doc.name = Absent THEN [doc EXCEPT !.name = folder] ELSE doc
             d2 == IF d1.category = Absent
                   THEN [d1 EXCEPT !.category = "None"]
                   ELSE IF d1.category # "None" /\ d1.category \notin cats
                        THEN [d1 EXCEPT !.category = "None"]
                        ELSE d1
             d3 == IF d2.data # Absent THEN [d2 EXCEPT !.data = ""] ELSE d2
             d4 == IF d3.id THEN [d3 EXCEPT !.id = FALSE] ELSE [d3 EXCEPT !.filename = FALSE]
         IN [raised |-> FALSE, doc |-> d4]

\* JamfObject._cleanup_xml. The blank-name branch raises NameError: its
\* LOG.warning call reads the undefined name `folder`.
_cleanup_xml(doc, folder, cats) ==
    IF doc.name # Absent /\ doc.name = ""
    THEN [raised |-> TRUE, doc |-> doc]
    ELSE LET d1 == IF doc.name = Absent THEN [doc EXCEPT !.name = folder] ELSE doc
             d2 == IF d1.category = Absent
                   THEN [d1 EXCEPT !.category = "None"]
                   ELSE IF d1.category # "None" /\ d1.category \notin cats
                        THEN [d1 EXCEPT !.category = "None"]
                        ELSE d1
             d3 == IF d2.data # Absent THEN [d2 EXCEPT !.data = ""] ELSE d2
             d4 == [d3 EXCEPT !.id = FALSE, !.filename = FALSE]
         IN [raised |-> FALSE, doc |-> d4]

\* Mutant: Script without its own cleanup_xml: <script_contents_encoded>
\* stays in the tree.
cleanup_xml_KeepEncoded(kind, doc, folder, cats) == _cleanup_xml(doc, folder, cats)

\* ExtensionAttribute.cleanup_xml and Script.cleanup_xml.
cleanup_xml(kind, doc, folder, cats) ==
    LET c == _cleanup_xml(doc, folder, cats)
    IN IF c.raised \/ kind # "Script"
       THEN c
       ELSE [raised |-> FALSE, doc |-> [c.doc EXCEPT !.encoded = FALSE]]

\* Mutant: the file is read into self.data but never written into the tree.
get_data_NoInject(doc, file) ==
    IF file = NoData
    THEN [raised |-> FALSE, found |-> FALSE, doc |-> doc, data |-> ""]
    ELSE [raised |-> FALSE, found |-> TRUE, doc |-> doc, data |-> file]

\* JamfObject.get_data: no file is an IndexError (returns None); a tree
\* without the element at data_xpath is an AttributeError, raised after
\* self.data was assigned.
get_data(doc, file) ==
    IF file = NoData
    THEN [raised |-> FALSE, found |-> FALSE, doc |-> doc, data |-> ""]
    ELSE IF doc.data = Absent
         THEN [raised |-> TRUE, found |-> FALSE, doc |-> doc, data |-> file]
         ELSE [raised |-> FALSE, found |-> TRUE,
               doc |-> [doc EXCEPT !.data = file], data |-> file]

\* JamfObject.get from `if not self.data` on, with self.xml = doc and
\* self.data = d: get_data is called only while self.data is None or empty.
get_content(doc, d, file) ==
    IF d # ""
    THEN [pc |-> "done", ret |-> "xml", xml |-> <<doc>>, data |-> d, read |-> FALSE,
          exc |-> ""]
    ELSE LET g == get_data(doc, file)
         IN IF g.raised
            THEN [pc |-> "raised", ret |-> "none", xml |-> <<g.doc>>, data |-> g.data,
                  read |-> TRUE, exc |-> "AttributeError"]
            ELSE [pc |-> "done", ret |-> IF g.found THEN "xml" ELSE "None",
                  xml |-> <<g.doc>>, data |-> g.data, read |-> TRUE, exc |-> ""]

\* JamfObject.get from `await self.cleanup_xml()` on, with self.xml = doc
\* and self.data = d.
get_tail(i, doc, d, file, cats) ==
    LET c == cleanup_xml(Kind(i), doc, i, cats)
    IN IF c.raised
       THEN [pc |-> "raised", ret |-> "none", xml |-> <<doc>>, data |-> d, read |-> FALSE,
             exc |-> "NameError"]
       ELSE get_content(c.doc, d, file)

\* Mutant: get() without its `if not self.xml` test: the tree is loaded
\* again on every call.
HasXml_Never(x) == FALSE

\* The truth value of self.xml: None is false, and so is an Element
\* without children.
HasXml(x) ==
    /\ x # <<>>
    /\ \/ x[1].name # Absent \/ x[1].category # Absent \/ x[1].data # Absent
       \/ x[1].id \/ x[1].filename \/ x[1].encoded

\* get_resource on a response: the parsed body when the status is one of
\* `responses`, else None (<<>>).
get_resource(s, responses, body) == IF s \in responses THEN <<body>> ELSE <<>>

(***************************************************************************)
(* The semaphore                                                           *)
(***************************************************************************)
\* Mutant: acquire never waits.
CanAcquire_Always(value) == TRUE

\* Semaphore.acquire proceeds only while the value is positive.
CanAcquire(value) == value > 0

\* Requests in flight: tasks between `async with semaphore` and its exit.
InFlight ==
    (IF mainPc = "cat_inflight" THEN 1 ELSE 0)
        + Cardinality({i \in Folders : getPc[i] = "inflight"})
        + Cardinality({i \in Folders : putPc[i] \in {"lookup", "write"}})

(***************************************************************************)
(* Init                                                                    *)
(***************************************************************************)
InitRun ==
    /\ CHANGED \in ChangedSets
    /\ update_all \in BOOLEAN
    /\ update_all => CHANGED = {}
    /\ all_items = {}
    /\ mainPc = "start"
    /\ exitStatus = -1
    /\ permits = 0
    /\ CATEGORIES = {}
    /\ catFetches = 0
    /\ xmlFile = [i \in Folders |-> Unread]
    /\ dataFile = [i \in Folders |-> UnreadData]
    /\ template = [k \in Kinds |-> Unread]
    /\ name = [i \in Folders |-> ""]
    /\ xml = [i \in Folders |-> <<>>]
    /\ data = [i \in Folders |-> ""]
    /\ getPc = [i \in Folders |-> "idle"]
    /\ getRet = [i \in Folders |-> "none"]
    /\ getReqs = [i \in Folders |-> 0]
    /\ exc = [i \in Folders |-> ""]
    /\ putPc = [i \in Folders |-> "idle"]
    /\ attempt = [i \in Folders |-> 0]
    /\ put_response = [i \in Folders |-> 0]
    /\ put_success = [i \in Folders |-> "none"]
    /\ tries = [i \in Folders |-> 0]
    /\ trips = [i \in Folders |-> <<>>]
    /\ lookups = [i \in Folders |-> 0]
    /\ writes = [i \in Folders |-> 0]
    /\ req = [i \in Folders |-> NoReq]
    /\ secondGet = [i \in Folders |-> NoSecondGet]

Init == InitRun /\ norm = NormIdle

(***************************************************************************)
(* main()                                                                  *)
(***************************************************************************)
\* Mutant: every folder becomes an object, changed or not.
Selected_All(changed, all) == Folders

\* The folders main turns into objects.
Selected(changed, all) == {f \in Folders : f \in changed \/ all}

\* __main__: nothing changed and no --update_all: sys.exit(0) before main.
NoChanges ==
    /\ mainPc = "start"
    /\ CHANGED = {} /\ ~update_all
    /\ mainPc' = "done"
    /\ exitStatus' = 0
    /\ UNCHANGED <<cfgVars, all_items, permits, catVars, fsVars, objVars, getVars, excVars, putVars>>

\* main up to the category fetch: the objects, the semaphore, and
\* get_existing_categories calling get_resource.
MainStart ==
    /\ mainPc = "start"
    /\ ~(CHANGED = {} /\ ~update_all)
    /\ all_items' = Selected(CHANGED, update_all)
    /\ permits' = Limit
    /\ mainPc' = "cat_acquire"
    /\ UNCHANGED <<cfgVars, exitStatus, catVars, fsVars, objVars, getVars, excVars, putVars>>

\* get_resource for the categories: the permit, then the GET.
CatAcquire ==
    /\ mainPc = "cat_acquire"
    /\ CanAcquire(permits)
    /\ permits' = permits - 1
    /\ catFetches' = catFetches + 1
    /\ mainPc' = "cat_inflight"
    /\ UNCHANGED <<cfgVars, all_items, exitStatus, CATEGORIES, fsVars, objVars, getVars, excVars, putVars>>

\* Mutant: the categories are fetched a second time before the get phase.
CatResponse_Refetch(s) ==
    /\ mainPc = "cat_inflight"
    /\ permits' = permits + 1
    /\ LET categories == get_resource(s, {200, 201}, ServerCategories)
       IN CATEGORIES' = IF categories # <<>> THEN categories[1] ELSE {}
    /\ mainPc' = IF catFetches < 2 THEN "cat_acquire" ELSE "get_phase"
    /\ UNCHANGED <<cfgVars, all_items, exitStatus, catFetches, fsVars, objVars, getVars, excVars, putVars>>

\* get_existing_categories on a response, responses = (200, 201); main then
\* gathers the get() tasks.
CatResponse(s) ==
    /\ mainPc = "cat_inflight"
    /\ permits' = permits + 1
    /\ LET categories == get_resource(s, {200, 201}, ServerCategories)
       IN CATEGORIES' = IF categories # <<>> THEN categories[1] ELSE {}
    /\ mainPc' = "get_phase"
    /\ UNCHANGED <<cfgVars, all_items, exitStatus, catFetches, fsVars, objVars, getVars, excVars, putVars>>

\* The category GET times out or the connection fails: nothing in main
\* catches it, the interpreter exits with a traceback and status 1.
CatFail ==
    /\ mainPc = "cat_inflight"
    /\ permits' = permits + 1
    /\ mainPc' = "aborted"
    /\ exitStatus' = 1
    /\ UNCHANGED <<cfgVars, all_items, catVars, fsVars, objVars, getVars, excVars, putVars>>

\* Mutant: main goes on as soon as one get() has returned.
GetPhaseComplete_Any == \E i \in all_items : getPc[i] = "done"

\* asyncio.gather over the get() tasks has every result.
GetPhaseComplete == \A i \in all_items : getPc[i] = "done"

MainGetDone ==
    /\ mainPc = "get_phase"
    /\ GetPhaseComplete
    /\ mainPc' = "put_phase"
    /\ UNCHANGED <<cfgVars, all_items, exitStatus, permits, catVars, fsVars, objVars, getVars, excVars, putVars>>

\* gather (return_exceptions is not set) hands the first exception of a task
\* to main, which nothing catches: the run ends there with status 1.
MainAbort ==
    /\ \/ mainPc = "get_phase" /\ \E i \in all_items : getPc[i] = "raised"
       \/ mainPc = "put_phase" /\ \E i \in all_items : putPc[i] = "raised"
    /\ mainPc' = "aborted"
    /\ exitStatus' = 1
    /\ UNCHANGED <<cfgVars, all_items, permits, catVars, fsVars, objVars, getVars, excVars, putVars>>

\* Mutant: any() in place of all().
ExitStatus_Any(results) == IF \E i \in DOMAIN results : results[i] = "True" THEN 0 ELSE 1

\* main's return value from put_success.
ExitStatus(results) == IF \A i \in DOMAIN results : results[i] = "True" THEN 0 ELSE 1

MainPutDone ==
    /\ mainPc = "put_phase"
    /\ \A i \in all_items : putPc[i] = "done"
    /\ exitStatus' = ExitStatus([i \in all_items |-> put_success[i]])
    /\ mainPc' = "done"
    /\ UNCHANGED <<cfgVars, all_items, permits, catVars, fsVars, objVars, getVars, excVars, putVars>>

(***************************************************************************)
(* JamfObject.get                                                          *)
(***************************************************************************)
\* The rest of get() once self.xml is `doc`: cleanup_xml, then get_data
\* on the folder's content file unless self.data is already there.
GetFinish(i, doc) ==
    \E file \in DataFiles :
        /\ dataFile[i] \in {UnreadData, file}
        /\ LET t == get_tail(i, doc, data[i], file, CATEGORIES)
           IN /\ xml' = [xml EXCEPT ![i] = t.xml]
              /\ data' = [data EXCEPT ![i] = t.data]
              /\ dataFile' = [dataFile EXCEPT ![i] = IF t.read THEN file ELSE @]
              /\ getPc' = [getPc EXCEPT ![i] = t.pc]
              /\ getRet' = [getRet EXCEPT ![i] = t.ret]
              /\ exc' = [exc EXCEPT ![i] = t.exc]

\* get() from its first line to its first suspension. Without a tree: with
\* a metadata file the whole of it, without one up to get_resource in
\* get_xml. With a tree already there: only the content step.
GetBody(i) ==
    IF ~HasXml(xml[i])
    THEN \E f \in XmlFiles :
            /\ xmlFile[i] \in {Unread, f}
            /\ xmlFile' = [xmlFile EXCEPT ![i] = f]
            /\ IF ~f.exists
               THEN /\ name' = [name EXCEPT ![i] = i]
                    /\ getPc' = [getPc EXCEPT ![i] = "acquire"]
                    /\ UNCHANGED <<xml, data, dataFile, getRet, exc>>
               ELSE IF ~f.wellFormed
               THEN \* parse_xml raises ParseError
                    /\ getPc' = [getPc EXCEPT ![i] = "raised"]
                    /\ exc' = [exc EXCEPT ![i] = "ParseError"]
                    /\ UNCHANGED <<name, xml, data, dataFile, getRet>>
               ELSE IF f.doc.name = Absent
               THEN \* self.xml.find("name") is None: AttributeError
                    /\ xml' = [xml EXCEPT ![i] = <<f.doc>>]
                    /\ getPc' = [getPc EXCEPT ![i] = "raised"]
                    /\ exc' = [exc EXCEPT ![i] = "AttributeError"]
                    /\ UNCHANGED <<name, data, dataFile, getRet>>
               ELSE /\ name' = [name EXCEPT ![i] = f.doc.name]
                    /\ GetFinish(i, f.doc)
    ELSE \E file \in DataFiles :
            /\ dataFile[i] \in {UnreadData, file}
            /\ LET t == get_content(xml[i][1], data[i], file)
               IN /\ xml' = [xml EXCEPT ![i] = t.xml]
                  /\ data' = [data EXCEPT ![i] = t.data]
                  /\ dataFile' = [dataFile EXCEPT ![i] = IF t.read THEN file ELSE @]
                  /\ getPc' = [getPc EXCEPT ![i] = t.pc]
                  /\ getRet' = [getRet EXCEPT ![i] = t.ret]
                  /\ exc' = [exc EXCEPT ![i] = t.exc]
            /\ UNCHANGED <<xmlFile, name>>

\* main's get() task of instance i starts.
GetStart(i) ==
    /\ mainPc = "get_phase"
    /\ i \in all_items
    /\ getPc[i] = "idle"
    /\ GetBody(i)
    /\ UNCHANGED <<cfgVars, mainVars, permits, catVars, template, getReqs, putVars>>

\* get() is called once more on an instance whose get() has returned.
GetAgain(i) ==
    /\ mainPc = "get_phase"
    /\ i \in all_items
    /\ getPc[i] = "done"
    /\ ~secondGet[i].called
    /\ secondGet' = [secondGet EXCEPT ![i] =
                        [called |-> TRUE, ret |-> getRet[i], name |-> name[i],
                         xml |-> xml[i], data |-> data[i], reqs |-> getReqs[i]]]
    /\ GetBody(i)
    /\ UNCHANGED <<CHANGED, update_all, norm, mainVars, permits, catVars, template,
                   getReqs, putVars>>

\* get_resource in get_xml: the permit, then the GET by name.
GetAcquire(i) ==
    /\ mainPc = "get_phase"
    /\ getPc[i] = "acquire"
    /\ CanAcquire(permits)
    /\ permits' = permits - 1
    /\ getReqs' = [getReqs EXCEPT ![i] = @ + 1]
    /\ getPc' = [getPc EXCEPT ![i] = "inflight"]
    /\ UNCHANGED <<cfgVars, mainVars, catVars, fsVars, objVars, getRet, excVars, putVars>>

\* The GET by name returns status s: get_xml takes the server's document or
\* parses the template; get() goes on to its end.
GetResponse(i, s) ==
    /\ mainPc = "get_phase"
    /\ getPc[i] = "inflight"
    /\ permits' = permits + 1
    /\ LET _template == get_resource(s, {200}, RemoteDoc(name[i]))
       IN IF _template # <<>>
          THEN /\ GetFinish(i, _template[1])
               /\ UNCHANGED template
          ELSE \E t \in TemplateFiles :
                /\ template[Kind(i)] \in {Unread, t}
                /\ template' = [template EXCEPT ![Kind(i)] = t]
                /\ IF t.exists
                   THEN GetFinish(i, t.doc)
                   ELSE \* parse_xml(self.template) raises
                        /\ getPc' = [getPc EXCEPT ![i] = "raised"]
                        /\ exc' = [exc EXCEPT ![i] = "FileNotFoundError"]
                        /\ UNCHANGED <<xml, data, dataFile, getRet>>
    /\ UNCHANGED <<cfgVars, mainVars, catVars, xmlFile, name, getReqs, putVars>>

\* The GET by name times out (asyncio.TimeoutError) or the connection fails
\* (aiohttp.ClientError): get_resource, get_xml and get catch neither.
GetFail(i, e) ==
    /\ mainPc = "get_phase"
    /\ getPc[i] = "inflight"
    /\ permits' = permits + 1
    /\ getPc' = [getPc EXCEPT ![i] = "raised"]
    /\ exc' = [exc EXCEPT ![i] = e]
    /\ UNCHANGED <<cfgVars, mainVars, catVars, fsVars, objVars, getRet, getReqs, putVars>>

(***************************************************************************)
(* JamfObject.put and put_resource                                         *)
(***************************************************************************)
\* Mutant: one value fewer in the loop.
Attempts_OneFewer == 1 .. (RE_TRIES - 2)

\* The values of `attempt` in put()'s loop: range(1, RE_TRIES).
Attempts == 1 .. (RE_TRIES - 1)

\* Mutant: 201 (created) is not taken as success.
PutResult_Only200(response) == IF response = 200 THEN "True" ELSE "False"

\* put()'s result from put_response.
PutResult(response) == IF response \in {201, 200} THEN "True" ELSE "False"

\* Mutant: the two branches of put_resource swapped.
WriteRequest_Swapped(i, s) ==
    IF s = 200
    THEN [method |-> "POST", url |-> new_url(i)]
    ELSE [method |-> "PUT", url |-> resource_url(i, name[i])]

\* put_resource after the existence GET returned status s.
WriteRequest(i, s) ==
    IF s = 200
    THEN [method |-> "PUT", url |-> resource_url(i, name[i])]
    ELSE [method |-> "POST", url |-> new_url(i)]

\* put() leaves its loop and returns.
PutReturn(i, response) ==
    /\ putPc' = [putPc EXCEPT ![i] = "done"]
    /\ put_success' = [put_success EXCEPT ![i] = PutResult(response)]

\* put() from its start to the first put_resource call.
PutStart(i) ==
    /\ mainPc = "put_phase"
    /\ i \in all_items
    /\ putPc[i] = "idle"
    /\ put_response' = [put_response EXCEPT ![i] = 0]
    /\ IF 1 \in Attempts
       THEN /\ attempt' = [attempt EXCEPT ![i] = 1]
            /\ tries' = [tries EXCEPT ![i] = @ + 1]
            /\ putPc' = [putPc EXCEPT ![i] = "acquire"]
            /\ UNCHANGED put_success
       ELSE /\ PutReturn(i, 0)
            /\ UNCHANGED <<attempt, tries>>
    /\ req' = [req EXCEPT ![i] = NoReq]
    /\ UNCHANGED <<cfgVars, mainVars, permits, catVars, fsVars, objVars, getVars, excVars,
                   trips, lookups, writes>>

\* put_resource: the permit, then the existence GET; session.get(None)
\* raises when resource_url() is None.
PutAcquire(i) ==
    /\ mainPc = "put_phase"
    /\ putPc[i] = "acquire"
    /\ CanAcquire(permits)
    /\ IF resource_url(i, name[i]) = <<>>
       THEN /\ putPc' = [putPc EXCEPT ![i] = "raised"]
            /\ exc' = [exc EXCEPT ![i] = "TypeError"]
            /\ trips' = [trips EXCEPT ![i] = Append(@, Failed)]
            /\ UNCHANGED <<permits, req>>
       ELSE /\ permits' = permits - 1
            /\ putPc' = [putPc EXCEPT ![i] = "lookup"]
            /\ req' = [req EXCEPT ![i].url = resource_url(i, name[i])]
            /\ UNCHANGED <<trips, exc>>
    /\ UNCHANGED <<cfgVars, mainVars, catVars, fsVars, objVars, getVars, attempt,
                   put_response, put_success, tries, lookups, writes>>

\* Mutant: the existence GET under its own `async with semaphore`: the
\* permit is given back before the write is issued.
PutLookupResponse_Release(i, s) ==
    /\ mainPc = "put_phase"
    /\ putPc[i] = "lookup"
    /\ permits' = permits + 1
    /\ lookups' = [lookups EXCEPT ![i] = @ + 1]
    /\ writes' = [writes EXCEPT ![i] = @ + 1]
    /\ LET w == WriteRequest(i, s)
       IN req' = [req EXCEPT ![i] = [lookup |-> s, method |-> w.method, url |-> w.url,
                                     body |-> xml[i]]]
    /\ putPc' = [putPc EXCEPT ![i] = "write"]
    /\ UNCHANGED <<cfgVars, mainVars, catVars, fsVars, objVars, getVars, excVars,
                   attempt, put_response, put_success, tries, trips>>

\* The existence GET returns status s: PUT or POST the serialized tree.
PutLookupResponse(i, s) ==
    /\ mainPc = "put_phase"
    /\ putPc[i] = "lookup"
    /\ lookups' = [lookups EXCEPT ![i] = @ + 1]
    /\ writes' = [writes EXCEPT ![i] = @ + 1]
    /\ LET w == WriteRequest(i, s)
       IN req' = [req EXCEPT ![i] = [lookup |-> s, method |-> w.method, url |-> w.url,
                                     body |-> xml[i]]]
    /\ putPc' = [putPc EXCEPT ![i] = "write"]
    /\ UNCHANGED <<cfgVars, mainVars, permits, catVars, fsVars, objVars, getVars, excVars,
                   attempt, put_response, put_success, tries, trips>>

\* Mutant: a status other than 200/201 is retried like a timeout.
PutWriteResponse_RetryStatus(i, s) ==
    /\ mainPc = "put_phase"
    /\ putPc[i] = "write"
    /\ permits' = permits + 1
    /\ req' = [req EXCEPT ![i] = NoReq]
    /\ put_response' = [put_response EXCEPT ![i] = s]
    /\ trips' = [trips EXCEPT ![i] = Append(@, Returned(s))]
    /\ IF s \notin {200, 201} /\ attempt[i] + 1 \in Attempts
       THEN /\ attempt' = [attempt EXCEPT ![i] = @ + 1]
            /\ tries' = [tries EXCEPT ![i] = @ + 1]
            /\ putPc' = [putPc EXCEPT ![i] = "acquire"]
            /\ UNCHANGED put_success
       ELSE /\ PutReturn(i, s)
            /\ UNCHANGED <<attempt, tries>>
    /\ UNCHANGED <<cfgVars, mainVars, catVars, fsVars, objVars, getVars, excVars,
                   lookups, writes>>

\* The PUT/POST returns status s: put_resource returns it, put() breaks
\* out of its loop and returns.
PutWriteResponse(i, s) ==
    /\ mainPc = "put_phase"
    /\ putPc[i] = "write"
    /\ permits' = permits + 1
    /\ req' = [req EXCEPT ![i] = NoReq]
    /\ put_response' = [put_response EXCEPT ![i] = s]
    /\ trips' = [trips EXCEPT ![i] = Append(@, Returned(s))]
    /\ PutReturn(i, s)
    /\ UNCHANGED <<cfgVars, mainVars, catVars, fsVars, objVars, getVars, excVars, attempt,
                   tries, lookups, writes>>

\* async_timeout fires during the existence GET or the write: put() logs it
\* and goes to the next value of its loop, or returns when there is none.
PutTimeout(i) ==
    /\ mainPc = "put_phase"
    /\ putPc[i] \in {"lookup", "write"}
    /\ permits' = permits + 1
    /\ trips' = [trips EXCEPT ![i] = Append(@, TimedOut)]
    /\ req' = [req EXCEPT ![i] = NoReq]
    /\ IF attempt[i] + 1 \in Attempts
       THEN /\ attempt' = [attempt EXCEPT ![i] = @ + 1]
            /\ tries' = [tries EXCEPT ![i] = @ + 1]
            /\ putPc' = [putPc EXCEPT ![i] = "acquire"]
            /\ UNCHANGED put_success
       ELSE /\ PutReturn(i, put_response[i])
            /\ UNCHANGED <<attempt, tries>>
    /\ UNCHANGED <<cfgVars, mainVars, catVars, fsVars, objVars, getVars, excVars,
                   put_response, lookups, writes>>

\* The connection fails during the existence GET or the write
\* (aiohttp.ClientError): put() catches only TimeoutError.
PutError(i) ==
    /\ mainPc = "put_phase"
    /\ putPc[i] \in {"lookup", "write"}
    /\ permits' = permits + 1
    /\ trips' = [trips EXCEPT ![i] = Append(@, Failed)]
    /\ putPc' = [putPc EXCEPT ![i] = "raised"]
    /\ exc' = [exc EXCEPT ![i] = "ClientError"]
    /\ req' = [req EXCEPT ![i] = NoReq]
    /\ UNCHANGED <<cfgVars, mainVars, catVars, fsVars, objVars, getVars, attempt,
                   put_response, put_success, tries, lookups, writes>>

(***************************************************************************)
(* Specification                                                           *)
(***************************************************************************)
Next ==
    \/ NoChanges
    \/ MainStart
    \/ CatAcquire
    \/ \E s \in Statuses : CatResponse(s)
    \/ CatFail
    \/ MainGetDone
    \/ MainAbort
    \/ MainPutDone
    \/ \E i \in Folders : GetStart(i)
    \/ \E i \in Folders : GetAcquire(i)
    \/ \E i \in Folders, s \in Statuses : GetResponse(i, s)
    \/ \E i \in Folders, e \in NetworkErrors : GetFail(i, e)
    \/ \E i \in Folders : PutStart(i)
    \/ \E i \in Folders : PutAcquire(i)
    \/ \E i \in Folders, s \in Statuses : PutLookupResponse(i, s)
    \/ \E i \in Folders, s \in Statuses : PutWriteResponse(i, s)
    \/ \E i \in Folders : PutTimeout(i)
    \/ \E i \in Folders : PutError(i)

Spec == Init /\ [][Next]_vars

(***************************************************************************)
(* cleanup_xml on its own, applied to any tree                             *)
(***************************************************************************)
runVars ==
    <<CHANGED, update_all, secondGet, mainVars, permits, catVars, fsVars, objVars, getVars,
      excVars, putVars>>

InitNorm ==
    /\ InitRun
    /\ CHANGED = {} /\ ~update_all
    /\ norm \in {NormState(f, cats, d) :
                    f \in Folders, cats \in NormCategorySets, d \in NormDocs}

\* `await self.cleanup_xml()` on the tree as loaded.
Normalize ==
    /\ norm.applied = 0
    /\ LET c == cleanup_xml(Kind(norm.folder), norm.tree, norm.folder, norm.cats)
       IN norm' = [norm EXCEPT !.tree = c.doc, !.once = c.doc, !.raised = c.raised,
                               !.applied = 1]
    /\ UNCHANGED runVars

\* cleanup_xml once more, on the tree the first call left.
NormalizeAgain ==
    /\ norm.applied = 1
    /\ LET c == cleanup_xml(Kind(norm.folder), norm.tree, norm.folder, norm.cats)
       IN norm' = [norm EXCEPT !.tree = c.doc, !.raised = c.raised, !.applied = 2]
    /\ UNCHANGED runVars

NextNorm == Normalize \/ NormalizeAgain

SpecNorm == InitNorm /\ [][NextNorm]_vars

(***************************************************************************)
(* The get phase with get() called a second time                           *)
(***************************************************************************)
NextGet ==
    \/ MainStart
    \/ CatAcquire
    \/ \E s \in Statuses : CatResponse(s)
    \/ CatFail
    \/ \E i \in Folders : GetStart(i)
    \/ \E i \in Folders : GetAcquire(i)
    \/ \E i \in Folders, s \in Statuses : GetResponse(i, s)
    \/ \E i \in Folders, e \in NetworkErrors : GetFail(i, e)
    \/ \E i \in Folders : GetAgain(i)

SpecGet == Init /\ [][NextGet]_vars

TypeOK ==
    /\ all_items \subseteq Folders
    /\ permits \in 0 .. Limit
    /\ exitStatus \in {-1, 0, 1}
    /\ \A i \in Folders : attempt[i] \in 0 .. RE_TRIES

(***************************************************************************)
(* Properties                                                              *)
(***************************************************************************)
RunEnded == mainPc \in {"done", "aborted"}

AllTimedOut(i) == \A k \in 1 .. Len(trips[i]) : trips[i][k] = TimedOut

LastTrip(i) == trips[i][Len(trips[i])]

ByNameUrl(i) == <<"JSSResource", resource(Kind(i)), "name", name[i]>>
CreateUrl(i) == <<"JSSResource", resource(Kind(i)), "id", "0">>

\* C1: when every upsert round-trip of an instance times out, put() has made
\* exactly RE_TRIES round-trips by the time it returns, and it returns False.
C1_RetryBound ==
    \A i \in Folders :
        (putPc[i] = "done" /\ AllTimedOut(i))
            => tries[i] = RE_TRIES /\ put_success[i] = "False"

\* C2: an instance whose folder has no supported-extension file never gets
\* an upsert round-trip (no existence GET, no PUT, no POST), and once the run
\* is over its put outcome is False and the exit status 1.
C2_NoContentNoUpload ==
    \A i \in Folders :
        dataFile[i] = NoData
            => /\ tries[i] = 0 /\ lookups[i] = 0 /\ writes[i] = 0
               /\ putPc[i] \notin {"acquire", "lookup", "write"}
               /\ RunEnded => put_success[i] = "False" /\ exitStatus = 1

InstanceFailed(i) ==
    getPc[i] = "raised" \/ putPc[i] = "raised" \/ put_success[i] = "False"

\* C3: when the run is over and some instance failed in its get or put
\* phase, the run did not abort: every other selected instance completed
\* its get phase and has a put outcome, and the exit status is 1.
C3_FailureContained ==
    \A i \in all_items :
        (RunEnded /\ InstanceFailed(i))
            => /\ mainPc = "done"
               /\ exitStatus = 1
               /\ \A j \in all_items \ {i} :
                    getPc[j] = "done" /\ put_success[j] \in {"True", "False"}

\* C4: a timeout of the get-phase GET counts as "no result": after exactly
\* one GET the instance holds the normalized template and its get phase has
\* completed.
C4_GetTimeoutFallsBack ==
    \A i \in Folders :
        (getReqs[i] > 0 /\ getPc[i] # "inflight" /\ exc[i] = "TimeoutError"
         /\ putPc[i] = "idle")
            => /\ getReqs[i] = 1
               /\ getPc[i] = "done"
               /\ template[Kind(i)].exists
               /\ xml[i] # <<>>

\* C5: the existence GET goes to the by-name URL; a 200 routes to a PUT to
\* that same URL and any other status to a POST to the id-0 URL; every
\* existence GET that returned was followed by exactly one write; and the
\* value put_resource returns is the status of that write.
C5_UpsertRouting ==
    \A i \in Folders :
        /\ putPc[i] = "lookup" => req[i].url = ByNameUrl(i) /\ req[i].method = ""
        /\ putPc[i] = "write"
            => /\ req[i].lookup = 200 => req[i].method = "PUT" /\ req[i].url = ByNameUrl(i)
               /\ req[i].lookup # 200 => req[i].method = "POST" /\ req[i].url = CreateUrl(i)
               /\ req[i].method \in {"PUT", "POST"}
        /\ writes[i] = lookups[i]
        /\ (putPc[i] = "done" /\ trips[i] # <<>> /\ LastTrip(i).kind = "status")
            => put_response[i] = LastTrip(i).status

\* C5 witness: one instance was created by a POST (201), the other is in its
\* PUT after an existence GET that returned 200.
C5_Witness ==
    \E i, j \in Folders :
        /\ i # j
        /\ putPc[i] = "write" /\ req[i].lookup = 200 /\ req[i].method = "PUT"
        /\ putPc[j] = "done" /\ put_response[j] = 201

\* main() has created the semaphore.
SemaphoreExists == mainPc = "cat_acquire" \/ catFetches > 0

\* C6: the requests in flight are never more than the limit, and once the
\* semaphore exists they are exactly the permits taken.
C6_ConcurrencyBound ==
    /\ InFlight <= Limit
    /\ SemaphoreExists => permits = Limit - InFlight

\* C6 witness: every permit is taken and a task waits for one.
C6_Witness ==
    /\ InFlight = Limit
    /\ \E i \in Folders : getPc[i] = "acquire" \/ putPc[i] = "acquire"

\* C7: a put() task has started only if the get() of every selected
\* instance has returned.
C7_PhaseBarrier ==
    \A i \in all_items :
        (putPc[i] # "idle" \/ tries[i] > 0)
            => \A j \in all_items : getPc[j] = "done"

\* C7 witness: two selected instances, one fetched its metadata from the
\* server in the get phase, and a put() has started.
C7_Witness ==
    \E i, j \in all_items :
        /\ i # j
        /\ getReqs[j] = 1
        /\ putPc[i] = "lookup"

AllPutsSucceeded == \A i \in all_items : put_success[i] = "True"

\* C8: when main() has returned, the exit status is 0 if every selected
\* instance's put() returned True (also when none was selected), 1 otherwise.
C8_RunResult ==
    mainPc = "done"
        => /\ exitStatus \in {0, 1}
           /\ exitStatus = 0 <=> AllPutsSucceeded

\* C8 witness: a run that ended with one instance uploaded and one failed.
C8_Witness ==
    /\ mainPc = "done"
    /\ exitStatus = 1
    /\ \E i, j \in all_items : put_success[i] = "True" /\ put_success[j] = "False"

\* C9: with RE_TRIES = 3, after a first round-trip that timed out a second
\* one is made, and when that one returns 200 put() returns True after
\* exactly two round-trips.
C9_TimeoutThenSuccess ==
    \A i \in Folders :
        /\ trips[i] = <<TimedOut>>
            => putPc[i] \in {"acquire", "lookup", "write"} /\ tries[i] = 2
        /\ (Len(trips[i]) >= 2 /\ trips[i][1] = TimedOut /\ trips[i][2] = Returned(200))
            => putPc[i] = "done" /\ put_success[i] = "True" /\ tries[i] = 2

\* C9 witness: a put() that returned after a timeout and then a 200.
C9_Witness ==
    \E i \in Folders :
        /\ trips[i] = <<TimedOut, Returned(200)>>
        /\ putPc[i] = "done"
        /\ RE_TRIES = 3

\* C10: put() returns True exactly when its last round-trip returned status
\* 200 or 201; any other status, and running out of attempts on timeouts,
\* gives False.
C10_SuccessIff200or201 ==
    \A i \in Folders :
        putPc[i] = "done"
            => /\ put_success[i] \in {"True", "False"}
               /\ put_success[i] = "True"
                    <=> /\ trips[i] # <<>>
                        /\ LastTrip(i).kind = "status"
                        /\ LastTrip(i).status \in {200, 201}

\* C10 witness: one put() returned True on a 201, another returned False
\* after nothing but timeouts.
C10_Witness ==
    \E i, j \in Folders :
        /\ putPc[i] = "done" /\ LastTrip(i) = Returned(201) /\ put_success[i] = "True"
        /\ putPc[j] = "done" /\ trips[j] # <<>> /\ AllTimedOut(j) /\ put_success[j] = "False"

\* C11: put() never raises: no put() task ends in an exception, whatever
\* the round-trip does (timeout, failed connection, unusable lookup URL).
C11_PutNeverRaises ==
    \A i \in Folders : putPc[i] # "raised"

\* C12: main's instances are exactly the folders that are in the change
\* set or run under --update_all, and a folder that is not selected is never
\* touched: no get(), no put(), no request, no file of it read.
C12_InstanceSelection ==
    /\ mainPc # "start" => all_items = {f \in Folders : f \in CHANGED \/ update_all}
    /\ \A f \in Folders :
        ~(f \in CHANGED \/ update_all)
            => /\ getPc[f] = "idle" /\ putPc[f] = "idle"
               /\ getReqs[f] = 0 /\ tries[f] = 0 /\ lookups[f] = 0 /\ writes[f] = 0
               /\ xmlFile[f] = Unread /\ dataFile[f] = UnreadData
               /\ xml[f] = <<>> /\ name[f] = ""

\* C12 witness: a finished run in which the changed folder was uploaded and
\* the other folder was left alone.
C12_Witness ==
    \E f \in all_items, g \in Folders \ all_items :
        /\ ~update_all /\ CHANGED = {f}
        /\ mainPc = "done"
        /\ put_success[f] = "True"
        /\ getPc[g] = "idle"

\* The document get() started from: the metadata file, else the template
\* once it was read, else the server's document.
SourceDoc(i) ==
    IF xmlFile[i].exists
    THEN xmlFile[i].doc
    ELSE IF template[Kind(i)] # Unread
         THEN template[Kind(i)].doc
         ELSE RemoteDoc(name[i])

\* `doc` with the text of the content file, if one was found, at data_xpath.
WithContent(doc, file) ==
    IF file \in {NoData, UnreadData} THEN doc ELSE [doc EXCEPT !.data = file]

\* C16: an instance without a metadata file whose GET by name returned
\* ends its get phase holding the normalized template (status other than
\* 200) or the normalized server document (status 200), with the content of
\* its file, if any, at the content field.
C16_TemplateFallback ==
    \A i \in Folders :
        (xmlFile[i] = NoFile /\ getReqs[i] = 1 /\ getPc[i] \notin {"acquire", "inflight"}
         /\ exc[i] \notin NetworkErrors)
            => /\ getPc[i] = "done"
               /\ template[Kind(i)] # Unread => template[Kind(i)].exists
               /\ xml[i] = <<WithContent(cleanup_xml(Kind(i), SourceDoc(i), i, CATEGORIES).doc,
                                         dataFile[i])>>

\* C17: the body of a PUT/POST for an instance with a content file is the
\* normalized tree with exactly the file's text at the content field,
\* whatever text the document held there before, and changed nowhere else.
C17_ContentInjected ==
    \A i \in Folders :
        (putPc[i] = "write" /\ dataFile[i] # NoData)
            => /\ req[i].body # <<>>
               /\ req[i].body[1].data = dataFile[i]
               /\ data[i] = dataFile[i]
               /\ req[i].body[1]
                    = [cleanup_xml(Kind(i), SourceDoc(i), i, CATEGORIES).doc
                         EXCEPT !.data = dataFile[i]]

\* C17 witness: a write whose document came with other text at the content
\* field (a stale local copy or the server's copy).
C17_Witness ==
    \E i \in Folders :
        /\ putPc[i] = "write"
        /\ dataFile[i] = "#!/bin/sh"
        /\ SourceDoc(i).data \in {"stale", "server copy"}
        /\ req[i].body[1].data = "#!/bin/sh"

\* C18: the categories are fetched at most once, that fetch has completed
\* before any get() starts, and CATEGORIES does not change after it.
C18_CategoriesOnce ==
    /\ [](/\ catFetches <= 1
          /\ (mainPc \in {"get_phase", "put_phase"} \/ \E i \in Folders : getPc[i] # "idle")
                => catFetches = 1 /\ mainPc \notin {"cat_acquire", "cat_inflight"})
    /\ [][mainPc \notin {"start", "cat_acquire", "cat_inflight"}
            => CATEGORIES' = CATEGORIES]_vars

\* C18 witness: a put() returned in a run that fetched the categories.
C18_Witness ==
    /\ catFetches = 1
    /\ CATEGORIES = ServerCategories
    /\ \E i \in Folders : putPc[i] = "done" /\ xml[i][1].category = "Software"

\* C19: a run in which instance work began and no connection failed stops
\* only in Done, with a put outcome for every selected instance.
C19_RunCompletes ==
    (/\ \E i \in all_items : getPc[i] # "idle"
     /\ \A i \in Folders : exc[i] # "ClientError"
     /\ ~ENABLED Next)
        => /\ mainPc = "done"
           /\ \A i \in all_items : put_success[i] \in {"True", "False"}

\* C20: a round-trip that returned a status, whatever it is, is the last
\* one of its instance: put() has returned and made no further round-trip.
C20_OnlyTimeoutsRetried ==
    \A i \in Folders :
        \A k \in 1 .. Len(trips[i]) :
            trips[i][k].kind = "status"
                => k = Len(trips[i]) /\ putPc[i] = "done" /\ tries[i] = k

\* C20 witness: a first round-trip returned 404 with an attempt left, and
\* the run ended without another one.
C20_Witness ==
    \E i \in Folders :
        /\ trips[i] = <<Returned(404)>>
        /\ tries[i] = 1 /\ 2 \in Attempts
        /\ mainPc = "done"

\* C13 (SpecNorm): after cleanup_xml returned, the tree's category is
\* "None" or one of CATEGORIES: an absent category became "None", a value
\* outside CATEGORIES became "None", a value in CATEGORIES is unchanged.
C13_CategoryNormalized ==
    (norm.applied >= 1 /\ ~norm.raised)
        => /\ norm.tree.category \in {"None"} \cup norm.cats
           /\ norm.input.category = Absent => norm.tree.category = "None"
           /\ norm.input.category \notin norm.cats => norm.tree.category = "None"
           /\ norm.input.category \in norm.cats
                => norm.tree.category = norm.input.category

\* C13 witness: "Obsolete" against {Software, Security} became "None".
C13_Witness ==
    /\ norm.applied = 1 /\ ~norm.raised
    /\ norm.input.category = "Obsolete"
    /\ norm.cats = {"Software", "Security"}
    /\ norm.tree.category = "None"

\* C14 (SpecNorm): cleanup_xml always leaves a non-empty name: an absent or
\* empty name is set to the folder identifier, any other name is kept.
C14_NameNormalized ==
    norm.applied >= 1
        => /\ ~norm.raised
           /\ norm.tree.name \notin {Absent, ""}
           /\ norm.input.name \in {Absent, ""} => norm.tree.name = norm.folder
           /\ norm.input.name \notin {Absent, ""} => norm.tree.name = norm.input.name

\* C15 (SpecNorm): cleanup_xml applied twice leaves the tree that applying
\* it once left.
C15_Idempotent ==
    norm.applied = 2 => norm.tree = norm.once

\* C15 witness: a second application on a tree the first one changed in
\* every step (name, category, content, id, filename, encoded).
C15_Witness ==
    /\ norm.applied = 2 /\ ~norm.raised
    /\ norm.input = MkDoc(Absent, "Obsolete", "stale", TRUE, TRUE, TRUE)
    /\ Kind(norm.folder) = "Script"
    /\ norm.once = MkDoc(norm.folder, "None", "", FALSE, FALSE, FALSE)

\* C21: a metadata file whose document has no name, or an empty one, does
\* not make get() fail: the instance ends up named after its folder; a
\* non-empty name in the file is the instance's name.
C21_NameRepaired ==
    \A i \in Folders :
        (xmlFile[i].exists /\ xmlFile[i].wellFormed)
            => /\ xmlFile[i].doc.name \in {Absent, ""}
                    => /\ exc[i] \notin {"AttributeError", "NameError"}
                       /\ name[i] = i
               /\ xmlFile[i].doc.name \notin {Absent, ""}
                    => name[i] = xmlFile[i].doc.name

\* The server-derived fields of tree d that kind k must not send back.
ServerFields(k, d) == d.id \/ d.filename \/ (k = "Script" /\ d.encoded)

\* C22: once get() has returned, the tree has no <id> and no <filename>,
\* and for a Script no <script_contents_encoded>; the same holds of the body
\* of every PUT/POST, whatever document the tree was loaded from.
C22_NoServerFields ==
    \A i \in Folders :
        /\ getPc[i] = "done" => xml[i] # <<>> /\ ~ServerFields(Kind(i), xml[i][1])
        /\ putPc[i] = "write"
            => req[i].body # <<>> /\ ~ServerFields(Kind(i), req[i].body[1])

\* C22 witness: a Script whose document came with all three fields (from
\* its file or from the server) is being written, and another instance was
\* loaded from a document that had them too.
C22_Witness ==
    \E i, j \in Folders :
        /\ i # j
        /\ Kind(i) = "Script" /\ putPc[i] = "write"
        /\ SourceDoc(i).id /\ SourceDoc(i).filename /\ SourceDoc(i).encoded
        /\ getPc[j] = "done" /\ SourceDoc(j).id /\ SourceDoc(j).filename

\* The upsert round-trips under way: put_resource calls inside their
\* `async with semaphore`.
Upserting == {i \in Folders : putPc[i] \in {"lookup", "write"}}

\* C23: an upsert round-trip takes one permit when it enters its existence
\* GET and no other; it goes from the GET to the write without giving the
\* permit back or taking another; it gives the permit back when the write
\* has returned or the round-trip has timed out or failed; and every
\* round-trip under way accounts for one permit taken.
C23_OnePermitPerUpsert ==
    /\ [](SemaphoreExists => permits <= Limit - Cardinality(Upserting))
    /\ [][\A i \in Folders :
            /\ (putPc[i] # "lookup" /\ putPc'[i] = "lookup")
                => putPc[i] = "acquire" /\ permits' = permits - 1
            /\ (putPc[i] # "write" /\ putPc'[i] = "write")
                => putPc[i] = "lookup" /\ permits' = permits
            /\ (i \in Upserting /\ putPc'[i] \notin {"lookup", "write"})
                => permits' = permits + 1]_vars

\* C23 witness: a round-trip is in its write, having passed its existence
\* GET, holding a permit another put() is waiting for.
C23_Witness ==
    \E i, j \in Folders :
        /\ i # j
        /\ putPc[i] = "write" /\ lookups[i] >= 1
        /\ putPc[j] = "acquire"
        /\ InFlight = Limit

\* C24 (SpecGet): a second get() on an instance whose first get() returned
\* its tree with content from a file issues no request and leaves the
\* instance's name, tree and content as they were, returning the tree.
C24_GetIdempotent ==
    \A i \in Folders :
        (secondGet[i].called /\ secondGet[i].ret = "xml" /\ secondGet[i].data # "")
            => /\ getPc[i] = "done" /\ getRet[i] = "xml"
               /\ getReqs[i] = secondGet[i].reqs
               /\ name[i] = secondGet[i].name
               /\ xml[i] = secondGet[i].xml
               /\ data[i] = secondGet[i].data

\* C24 witness: second calls on an instance loaded from its metadata file
\* and on one that fetched its tree from the server.
C24_Witness ==
    \E i, j \in Folders :
        /\ secondGet[i].called /\ secondGet[i].ret = "xml" /\ xmlFile[i].exists
        /\ secondGet[j].called /\ secondGet[j].ret = "xml" /\ getReqs[j] = 1
        /\ data[i] = "#!/bin/sh" /\ data[j] = "#!/bin/sh"

\* C25: a permit is held only by a request in flight, one per task; a put()
\* whose round-trip timed out finds a permit for its retry when no other
\* request is in flight; and when the run has ended, however it ended,
\* every permit of the semaphore is free.
C25_NoPermitLeak ==
    SemaphoreExists
        => /\ permits + InFlight = Limit
           /\ \A i \in Folders :
                (putPc[i] = "acquire" /\ trips[i] # <<>> /\ LastTrip(i) = TimedOut
                 /\ InFlight = 0)
                    => CanAcquire(permits)
           /\ RunEnded => permits = Limit

\* C26: in every upsert round-trip of an instance whose tree came from its
\* metadata file or from the template, the name in the by-name lookup URL
\* is not empty and is the name in the tree sent as the body.
C26_LookupNameIsBodyName ==
    \A i \in Folders :
        (i \in Upserting /\ (xmlFile[i].exists \/ template[Kind(i)] # Unread))
            => /\ name[i] # ""
               /\ xml[i] # <<>> /\ xml[i][1].name = name[i]
               /\ putPc[i] = "write" => req[i].body # <<>> /\ req[i].body[1].name = name[i]

====
